---- MODULE Spec2Model ----
(***************************************************************************)
(* A model of cairo-lint-core's diagnostic-to-fix pipeline:                *)
(*   - Fixer::transform_if_else, the character-level rewriter behind       *)
(*     fix_collapsible_if_else (fix.rs), one action per loop iteration;    *)
(*   - diagnostic_kind_from_message (plugin.rs);                           *)
(*   - fix_semantic_diagnostic / fix_plugin_diagnostic (fix.rs);           *)
(*   - check_collapsible_else_if (lints/collapsible_if_else.rs);           *)
(*   - fix_double_parens (fix.rs).                                         *)
(* Texts are sequences of one-character strings.                           *)
(***************************************************************************)
EXTENDS Integers, Sequences, FiniteSets, TLC

VARIABLES
    op,                 \* the operation the caller invoked
    pc,                 \* position of the running operation
    text,               \* transform_if_else: the input text
    pos,                \* transform_if_else: characters consumed from `chars`
    result,             \* transform_if_else: the output buffer
    if_indentation,     \* fix.rs:239
    diff_indentation,   \* fix.rs:240
    inside_else_clause, \* fix.rs:241
    extra_else,         \* fix.rs:242
    open_braces,        \* fix.rs:285
    log,                \* diagnostic_kind_from_message: the calls made, with their results
    diag,               \* fix_semantic_diagnostic: the diagnostic to fix
    node,               \* the syntax node a fix routine works on
    expr,               \* fix_double_parens: fix.rs:200
    new_text,           \* the text a fix routine returned, fix.rs:146
    fix,                \* what fix_semantic_diagnostic returned
    else_clause,        \* check_collapsible_else_if: the else clause checked
    diagnostics,        \* check_collapsible_else_if: the caller's output list
    before,             \* the output list as it was when the check was called
    calls               \* CairoLint::diagnostics: the calls running, one per caller

vars == <<op, pc, text, pos, result, if_indentation, diff_indentation,
          inside_else_clause, extra_else, open_braces, log, diag, node, expr,
          new_text, fix, else_clause, diagnostics, before, calls>>

\* the locals of transform_if_else
locals == <<pc, pos, result, if_indentation, diff_indentation,
            inside_else_clause, extra_else, open_braces>>

-----------------------------------------------------------------------------
(* Bounds of the model.                                                    *)

\* outer indentation I ranges over 0..MaxIndent
MaxIndent == 2
\* width d of one indentation level ranges over 1..MaxDelta
MaxDelta == 2
\* calls of diagnostic_kind_from_message a caller makes in a row
MaxCalls == 2
\* parenthesis layers around an expression range over 1..MaxParens
MaxParens == 3
\* statements in the block of an else clause range over 0..MaxStatements
MaxStatements == 2

-----------------------------------------------------------------------------
(* Characters and text helpers.                                            *)

NL == "\n"

\* char::is_whitespace restricted to the characters of the modelled texts
IsWhitespace(c) == c \in {" ", "\n", "\t"}

Spaces(n) == [i \in 1..n |-> " "]

\* `chars.peek()` after p characters were consumed; NoChar stands for None
NoChar == "EOF"
Peek(t, p) == IF p < Len(t) THEN t[p + 1] ELSE NoChar

\* length of the run of whitespace that starts after p consumed characters
RECURSIVE WsRun(_, _)
WsRun(t, p) == IF p < Len(t) /\ IsWhitespace(t[p + 1]) THEN 1 + WsRun(t, p + 1) ELSE 0

\* length of the run of ' ' that starts after p consumed characters
RECURSIVE SpaceRun(_, _)
SpaceRun(t, p) == IF p < Len(t) /\ t[p + 1] = " " THEN 1 + SpaceRun(t, p + 1) ELSE 0

\* str::ends_with
EndsWith(s, suffix) ==
    /\ Len(s) >= Len(suffix)
    /\ SubSeq(s, Len(s) - Len(suffix) + 1, Len(s)) = suffix

\* result.chars().rev().take(n) reversed back: the last n characters (fewer
\* when the buffer is shorter)
LastChars(s, n) == IF Len(s) >= n THEN SubSeq(s, Len(s) - n + 1, Len(s)) ELSE s

\* n times String::pop (a pop of the empty string does nothing)
PopN(s, n) == IF n >= Len(s) THEN <<>> ELSE SubSeq(s, 1, Len(s) - n)

\* "Remove preceding spaces and newline": pop while the last char is whitespace
RECURSIVE TrimEnd(_)
TrimEnd(s) ==
    IF Len(s) > 0 /\ IsWhitespace(s[Len(s)]) THEN TrimEnd(SubSeq(s, 1, Len(s) - 1)) ELSE s

\* str::replace(from, to) with a non-empty `from`: every non-overlapping
\* match, left to right
RECURSIVE ReplaceAll(_, _, _)
ReplaceAll(s, from, to) ==
    IF Len(s) < Len(from) THEN s
    ELSE IF SubSeq(s, 1, Len(from)) = from
         THEN to \o ReplaceAll(SubSeq(s, Len(from) + 1, Len(s)), from, to)
         ELSE <<s[1]>> \o ReplaceAll(Tail(s), from, to)

\* chars().take_while(|c| c.is_whitespace())
RECURSIVE LeadingWhitespace(_)
LeadingWhitespace(s) ==
    IF Len(s) > 0 /\ IsWhitespace(s[1]) THEN <<s[1]>> \o LeadingWhitespace(Tail(s)) ELSE <<>>

\* str::trim
RECURSIVE TrimStart(_)
TrimStart(s) == IF Len(s) > 0 /\ IsWhitespace(s[1]) THEN TrimStart(Tail(s)) ELSE s

ElseSpBraceIf == <<"e", "l", "s", "e", " ", "{", "i", "f">>
ElseBraceIf   == <<"e", "l", "s", "e", "{", "i", "f">>
ElseIf        == <<"e", "l", "s", "e", " ", "i", "f">>
ElseSp        == <<"e", "l", "s", "e", " ">>
ElseWord      == <<"e", "l", "s", "e">>
CloseElseOpen == <<"}", " ", "e", "l", "s", "e", " ", "{">>
SpElseOpenNl  == <<" ", "e", "l", "s", "e", " ", "{", "\n">>

-----------------------------------------------------------------------------
(* Fixer::transform_if_else, fix.rs:236-442.                               *)

\* the locals of one call, as a record
Locals ==
    [pc |-> pc, pos |-> pos, result |-> result,
     if_indentation |-> if_indentation, diff_indentation |-> diff_indentation,
     inside_else_clause |-> inside_else_clause, extra_else |-> extra_else,
     open_braces |-> open_braces]

\* The call aborts: `unwrap()` of None, or a `usize` subtraction below zero.
\* (With overflow checks the subtraction panics; without them it wraps to a
\* value above 2^63, and the call then ends in the capacity overflow of
\* " ".repeat at fix.rs:434 or in an allocation failure: it never returns.)
Panic(s) == [s EXCEPT !.pc = "panic"]

\* fix.rs:282
Triggers(temp) == EndsWith(temp, ElseSpBraceIf) \/ EndsWith(temp, ElseBraceIf)

\* fix.rs:244-283 and 426-431: one iteration of the outer
\* `while let Some(c) = chars.next()` that does not run the flattening loop
OuterIter(t, s) ==
    LET c  == t[s.pos + 1]
        p1 == s.pos + 1
    IN
    IF ~(c = "e" /\ Peek(t, p1) = "l")
    THEN [s EXCEPT !.pos = p1, !.result = Append(@, c)]
    ELSE IF Len(t) < p1 + 3 THEN Panic(s)
    ELSE
      LET p3    == p1 + 3 + WsRun(t, p1 + 3)
          temp3 == SubSeq(t, p1, p3)
      IN
      IF Peek(t, p3) # "{"
      THEN [s EXCEPT !.pos = p3, !.result = @ \o temp3]
      ELSE
        LET p4    == p3 + 1
            p5    == p4 + WsRun(t, p4)
            temp4 == SubSeq(t, p1, p4)
            ifi   == s.if_indentation + Cardinality({i \in (p4 + 1)..p5 : t[i] # NL})
        IN
        IF Peek(t, p5) # "i"
        THEN [s EXCEPT !.pos = p5, !.result = @ \o temp4, !.if_indentation = ifi]
        ELSE IF Len(t) < p5 + 2 THEN Panic(s)
        ELSE
          LET temp6 == temp4 \o SubSeq(t, p5 + 1, p5 + 2) IN
          IF Triggers(temp6)
          THEN [s EXCEPT !.pc = "flatten", !.pos = p5 + 2, !.result = @ \o ElseIf,
                         !.if_indentation = ifi, !.open_braces = 0]
          ELSE [s EXCEPT !.pos = p5 + 2, !.result = @ \o temp6, !.if_indentation = ifi]

\* a rewriter that re-emits deeper lines at their original indentation
DeeperIndentationKept(line_indentation, ifi) == line_indentation

\* fix.rs:390: the number of spaces pushed for a line deeper than the inner if
DeeperIndentation(line_indentation, ifi) == line_indentation - (line_indentation - ifi)

\* fix.rs:288-341: `{` read in flattening mode
OnOpenBrace(t, s) ==
    LET p1 == s.pos + 1
        r  == s.result
    IN
    IF s.inside_else_clause
    THEN IF LastChars(r, 5) = ElseSp
         THEN [s EXCEPT !.pos = p1, !.extra_else = TRUE, !.result = TrimEnd(PopN(r, 5))]
         ELSE IF LastChars(r, 4) = ElseWord
         THEN [s EXCEPT !.pos = p1, !.extra_else = TRUE, !.result = TrimEnd(PopN(r, 4))]
         ELSE IF Peek(t, p1) # NoChar
              THEN IF Peek(t, p1) = "}"
                   THEN [s EXCEPT !.pos = p1 + 1, !.result = r \o <<"{", "}">>]
                   ELSE [s EXCEPT !.pos = p1]
              ELSE [s EXCEPT !.pos = p1, !.open_braces = @ + 1, !.result = Append(r, "{")]
    ELSE [s EXCEPT !.pos = p1, !.open_braces = @ + 1, !.result = Append(r, "{")]

\* fix.rs:342-368: `}` read in flattening mode
OnCloseBrace(t, s) ==
    LET p1 == s.pos + 1
        r  == s.result
    IN
    IF s.open_braces = 1
    THEN IF ~s.inside_else_clause
         THEN [s EXCEPT !.pos = p1, !.open_braces = @ - 1, !.inside_else_clause = TRUE,
                        !.result = PopN(r, s.diff_indentation) \o CloseElseOpen]
         ELSE [s EXCEPT !.pos = p1, !.open_braces = @ - 1]
    ELSE IF s.open_braces = 0
    THEN [s EXCEPT !.pos = p1, !.open_braces = @ - 1, !.result = Append(r, "}")]
    ELSE [s EXCEPT !.pc = "outer", !.pos = p1, !.result = TrimEnd(r)]

\* fix.rs:369-419: newline read in flattening mode
OnNewline(t, s) ==
    LET p1   == s.pos + 1
        line == SpaceRun(t, p1)
        p2   == p1 + line
        r    == Append(s.result, NL)
        ifi  == s.if_indentation
    IN
    IF s.diff_indentation = 0 /\ line < ifi THEN Panic(s)
    ELSE
      LET diff == IF s.diff_indentation = 0 THEN line - ifi ELSE s.diff_indentation
          s2   == [s EXCEPT !.pos = p2, !.diff_indentation = diff]
      IN
      IF line > ifi
      THEN [s2 EXCEPT !.result = r \o Spaces(DeeperIndentation(line, ifi))]
      ELSE IF s.inside_else_clause
      THEN IF Peek(t, p2) # NoChar
           THEN IF Peek(t, p2) = "}" /\ s.extra_else
                THEN IF line < diff THEN Panic(s)
                     ELSE [s2 EXCEPT !.result = r \o Spaces(line - diff),
                                     !.extra_else = FALSE]
                ELSE [s2 EXCEPT !.result = r \o Spaces(line)]
           ELSE [s2 EXCEPT !.result = r]
      ELSE [s2 EXCEPT !.result = r \o Spaces(line)]

\* a flattening loop that peeks at a newline without consuming it
FlattenIterPeeking(t, s) ==
    LET c == t[s.pos + 1] IN
    IF c = "{" THEN OnOpenBrace(t, s)
    ELSE IF c = "}" THEN OnCloseBrace(t, s)
    ELSE IF c = NL THEN s
    ELSE [s EXCEPT !.pos = s.pos + 1, !.result = Append(@, c)]

\* fix.rs:287-423: one iteration of the flattening loop
FlattenIter(t, s) ==
    LET c == t[s.pos + 1] IN
    IF c = "{" THEN OnOpenBrace(t, s)
    ELSE IF c = "}" THEN OnCloseBrace(t, s)
    ELSE IF c = NL THEN OnNewline(t, s)
    ELSE [s EXCEPT !.pos = s.pos + 1, !.result = Append(@, c)]

\* fix.rs:434-435
EmptyElsePattern(diff) == SpElseOpenNl \o Spaces(diff) \o <<"}">>

\* fix.rs:434-441
PostProcess(r, diff) == ReplaceAll(r, EmptyElsePattern(diff), <<>>)

Assign(s) ==
    /\ pc' = s.pc
    /\ pos' = s.pos
    /\ result' = s.result
    /\ if_indentation' = s.if_indentation
    /\ diff_indentation' = s.diff_indentation
    /\ inside_else_clause' = s.inside_else_clause
    /\ extra_else' = s.extra_else
    /\ open_braces' = s.open_braces

Entry ==
    [pc |-> "outer", pos |-> 0, result |-> <<>>, if_indentation |-> 0,
     diff_indentation |-> 0, inside_else_clause |-> FALSE, extra_else |-> FALSE,
     open_braces |-> 0]

-----------------------------------------------------------------------------
(* The texts handed to transform_if_else: else clauses at outer             *)
(* indentation I whose nesting levels are d spaces wide.                    *)

Indents == 0..MaxIndent
Deltas  == 1..MaxDelta

ElseOpen == <<"e", "l", "s", "e", " ", "{">>
\* `if <cond> {`
IfOpen(cond) == <<"i", "f", " ">> \o cond \o <<" ", "{">>
\* a line: newline, indentation, content
Line(n, content) == <<NL>> \o Spaces(n) \o content

Body1 == <<"x">>
Body2 == <<"y">>
Cond  == <<"c">>

\* else { if c { x } else { y } }, one token group per line
NestedIfElse(I, d) ==
    ElseOpen \o Line(I + d, IfOpen(Cond)) \o Line(I + 2 * d, Body1)
    \o Line(I + d, CloseElseOpen) \o Line(I + 2 * d, Body2)
    \o Line(I + d, <<"}">>) \o Line(I, <<"}">>)

\* else if c { x } else { y }
FlatIfElse(I, d) ==
    ElseIf \o <<" ">> \o Cond \o <<" ", "{">> \o Line(I + d, Body1)
    \o Line(I, CloseElseOpen) \o Line(I + d, Body2) \o Line(I, <<"}">>)

\* else { if c { x } }: the inner if has no else branch
NestedIfNoElse(I, d) ==
    ElseOpen \o Line(I + d, IfOpen(Cond)) \o Line(I + 2 * d, Body1)
    \o Line(I + d, <<"}">>) \o Line(I, <<"}">>)

\* else { if c { if k { x } } else { y } }: a block nested in the inner if's body
NestedInBody(I, d) ==
    ElseOpen \o Line(I + d, IfOpen(Cond)) \o Line(I + 2 * d, IfOpen(<<"k">>))
    \o Line(I + 3 * d, Body1) \o Line(I + 2 * d, <<"}">>)
    \o Line(I + d, CloseElseOpen) \o Line(I + 2 * d, Body2)
    \o Line(I + d, <<"}">>) \o Line(I, <<"}">>)

\* else { if c { x } else { if k { y } } }: a block nested in the inner if's else body
NestedInElse(I, d) ==
    ElseOpen \o Line(I + d, IfOpen(Cond)) \o Line(I + 2 * d, Body1)
    \o Line(I + d, CloseElseOpen) \o Line(I + 2 * d, IfOpen(<<"k">>))
    \o Line(I + 3 * d, Body2) \o Line(I + 2 * d, <<"}">>)
    \o Line(I + d, <<"}">>) \o Line(I, <<"}">>)

\* else { x }: an ordinary else block
OrdinaryElse(I, d) == ElseOpen \o Line(I + d, Body1) \o Line(I, <<"}">>)

\* leading trivia (a blank line and the indentation) before the else clause
WithTrivia(I, d) == Line(I, <<>>) \o NestedIfElse(I, d)

\* else  { if c { x } else { y } }: two spaces between `else` and `{`
NestedIfElseWide(I, d) == <<"e", "l", "s", "e", " ">> \o Tail(Tail(Tail(Tail(NestedIfElse(I, d)))))

\* else{ if c { x } else { y } }: nothing between `else` and `{`
NestedIfElseTight(I, d) == <<"e", "l", "s", "e">> \o Tail(Tail(Tail(Tail(Tail(NestedIfElse(I, d))))))

\* else { if c { x } }, the inner if on one line
OneLineInner(I, d) ==
    ElseOpen \o Line(I + d, IfOpen(Cond) \o <<" ">> \o Body1 \o <<" ", "}">>)
    \o Line(I, <<"}">>)

\* if c { x } else { if c { x } else { ... } } on one line: levels k..n of
\* a chain of else blocks that each hold an if
RECURSIVE ChainLevels(_, _)
ChainLevels(k, n) ==
    IfOpen(Cond) \o <<" ">> \o Body1 \o <<" ", "}">>
    \o (IF k < n
        THEN <<" ">> \o ElseOpen \o <<" ">> \o ChainLevels(k + 1, n) \o <<" ", "}">>
        ELSE <<>>)

\* else { if .. else { if .. else { if .. else { if .. } } } } on one line
ElseIfChain(I, d) == ElseOpen \o <<" ">> \o ChainLevels(1, 4) \o <<" ", "}">>

\* else { if c { x y } } in a source without indentation, the second line
\* of the body d spaces in
Unindented(I, d) ==
    ElseOpen \o Line(0, IfOpen(Cond)) \o Line(0, Body1) \o Line(d, Body2)
    \o Line(0, <<"}">>) \o Line(0, <<"}">>)

\* else { el}: the text ends one character after an `el`
EndsInEl(I, d) == ElseOpen \o <<" ", "e", "l", "}">>

\* else { i: the text ends right after the `i` that follows `else {`
EndsInI(I, d) == ElseOpen \o <<" ", "i">>

Shapes == {"NestedIfElse", "NestedIfNoElse", "NestedInBody", "NestedInElse",
           "OrdinaryElse", "WithTrivia", "NestedIfElseWide", "NestedIfElseTight",
           "OneLineInner", "ElseIfChain", "Unindented", "EndsInEl", "EndsInI"}

Shape(k, I, d) ==
    CASE k = "NestedIfElse"   -> NestedIfElse(I, d)
      [] k = "NestedIfNoElse" -> NestedIfNoElse(I, d)
      [] k = "NestedInBody"   -> NestedInBody(I, d)
      [] k = "NestedInElse"   -> NestedInElse(I, d)
      [] k = "OrdinaryElse"   -> OrdinaryElse(I, d)
      [] k = "WithTrivia"     -> WithTrivia(I, d)
      [] k = "NestedIfElseWide"  -> NestedIfElseWide(I, d)
      [] k = "NestedIfElseTight" -> NestedIfElseTight(I, d)
      [] k = "OneLineInner"   -> OneLineInner(I, d)
      [] k = "ElseIfChain"    -> ElseIfChain(I, d)
      [] k = "Unindented"     -> Unindented(I, d)
      [] k = "EndsInEl"       -> EndsInEl(I, d)
      [] k = "EndsInI"        -> EndsInI(I, d)

Texts == {Shape(k, I, d) : k \in Shapes, I \in Indents, d \in Deltas}

-----------------------------------------------------------------------------
(* Syntax nodes and the simple fix routines, fix.rs:72-211, 444-468.       *)

\* no node
NoNode == [kind |-> "None"]

\* An expression node: its leading trivia, its own tokens (or, for a
\* parenthesized expression, the expression between the parentheses) and
\* its trailing trivia.
Leaf(kind, leading, core, trailing) ==
    [kind |-> kind, leading |-> leading, text |-> core, trailing |-> trailing,
     inner |-> NoNode]

Parenthesized(leading, inner, trailing) ==
    [kind |-> "Parenthesized", leading |-> leading, text |-> <<>>,
     trailing |-> trailing, inner |-> inner]

\* SyntaxNode::get_text_without_trivia
RECURSIVE get_text_without_trivia(_)
get_text_without_trivia(e) ==
    IF e.kind = "Parenthesized"
    THEN <<"(">> \o e.inner.leading \o get_text_without_trivia(e.inner)
         \o e.inner.trailing \o <<")">>
    ELSE e.text

\* SyntaxNode::get_text
get_text(e) == e.leading \o get_text_without_trivia(e) \o e.trailing

\* the number of parenthesis layers around the innermost expression
RECURSIVE ParenDepth(_)
ParenDepth(e) == IF e.kind = "Parenthesized" THEN 1 + ParenDepth(e.inner) ELSE 0

\* fix.rs:72-76
fix_unused_variable(n) == <<"_">> \o get_text(n)

\* a formatter that emits the whole text of the innermost expression
format_double_parens_with_trivia(n, e) ==
    LeadingWhitespace(get_text(n)) \o get_text(e)

\* fix.rs:206-210: the text built once the loop has ended with `expr` = e
format_double_parens(n, e) ==
    LeadingWhitespace(get_text(n)) \o get_text_without_trivia(e)

\* fix.rs:169-171
BreakUnitText == <<"b", "r", "e", "a", "k", " ", "(", ")", ";">>
BreakText     == <<"b", "r", "e", "a", "k", ";">>

\* str::replacen(from, to, 1): the first match only
RECURSIVE ReplaceFirst(_, _, _)
ReplaceFirst(s, from, to) ==
    IF Len(s) < Len(from) THEN s
    ELSE IF SubSeq(s, 1, Len(from)) = from
         THEN to \o SubSeq(s, Len(from) + 1, Len(s))
         ELSE <<s[1]>> \o ReplaceFirst(Tail(s), from, to)

\* a fix that rewrites the first `break ();` only
fix_break_unit_first_only(n) == ReplaceFirst(get_text(n), BreakUnitText, BreakText)

\* fix.rs:169-171
fix_break_unit(n) == ReplaceAll(get_text(n), BreakUnitText, BreakText)

\* single_match::is_expr_unit, declared outside the sources read
is_expr_unit(expression) == expression.unit

\* fix.rs:100-114: the arm (1 or 2) whose pattern and body are kept;
\* 0 stands for panic!("Incorrect diagnostic")
destruct_match_arm(first_arm, second_arm) ==
    LET k1 == first_arm.pattern.kind
        k2 == second_arm.pattern.kind
    IN
    CASE k1 = "Underscore" /\ k2 = "Enum"       -> 2
      [] k1 = "Enum"       /\ k2 = "Underscore" -> 1
      [] k1 = "Underscore" /\ k2 = "Struct"     -> 2
      [] k1 = "Struct"     /\ k2 = "Underscore" -> 1
      [] k1 = "Enum"       /\ k2 = "Enum"       ->
            IF is_expr_unit(second_arm.expression) THEN 1 ELSE 2
      [] OTHER                                  -> 0

IfLet == <<"i", "f", " ", "l", "e", "t", " ">>

\* the text of a match arm and of a match expression
arm_get_text(arm) ==
    arm.pattern.leading \o arm.pattern.text \o <<" ", "=", ">", " ">>
    \o arm.expression.text \o <<",">>

match_get_text(n) ==
    n.leading \o <<"m", "a", "t", "c", "h", " ">> \o n.expr \o <<" ", "{">>
    \o arm_get_text(n.arms[1]) \o arm_get_text(n.arms[2]) \o <<" ", "}">>

\* fix.rs:113: the call aborts
fix_destruct_match_panics(n) == destruct_match_arm(n.arms[1], n.arms[2]) = 0

\* a fixer that takes the pattern of the chosen arm and the body of the
\* first arm
fix_destruct_match_first_body(n) ==
    LET arms    == n.arms
        chosen  == destruct_match_arm(arms[1], arms[2])
        pattern == arms[chosen].pattern
        indent  == LeadingWhitespace(match_get_text(n))
        trimmed == TrimStart(TrimEnd(pattern.leading))
        trivia  == IF trimmed = <<>> THEN trimmed ELSE indent \o trimmed \o <<NL>>
    IN
    trivia \o indent \o IfLet \o pattern.text \o <<" ", "=", " ">> \o n.expr
    \o <<" ", "{", " ">> \o arms[1].expression.text \o <<" ", "}">>

\* fix.rs:95-126, when the call does not abort
fix_destruct_match(n) ==
    LET arms    == n.arms
        chosen  == destruct_match_arm(arms[1], arms[2])
        pattern == arms[chosen].pattern
        indent  == LeadingWhitespace(match_get_text(n))
        trimmed == TrimStart(TrimEnd(pattern.leading))
        trivia  == IF trimmed = <<>> THEN trimmed ELSE indent \o trimmed \o <<NL>>
    IN
    trivia \o indent \o IfLet \o pattern.text \o <<" ", "=", " ">> \o n.expr
    \o <<" ", "{", " ">> \o arms[chosen].expression.text \o <<" ", "}">>

\* None, for an operator
NoOperator == <<>>

\* double_comparison::extract_binary_operator_expr, declared outside the
\* sources read: the operator of a binary expression, None otherwise
extract_binary_operator_expr(e) == e.op

\* double_comparison::determine_simplified_operator, declared outside the
\* sources read: `<` and `==` joined by `||` fuse into `<=`; a contradiction
\* (`<` and `>` joined by `&&`) has no simplified operator
determine_simplified_operator(lhs_op, rhs_op, middle_op) ==
    IF lhs_op = <<"<">> /\ rhs_op = <<"=", "=">> /\ middle_op = <<"|", "|">>
    THEN <<"<", "=">>
    ELSE NoOperator

\* double_comparison::operator_to_replace, declared outside the sources
\* read: the text of the operator
operator_to_replace(lhs_op) == lhs_op

\* fix.rs:444-468
fix_double_comparison(n) ==
    IF n.kind # "Binary" THEN get_text(n)
    ELSE
      LET lhs_op == extract_binary_operator_expr(n.lhs)
          rhs_op == extract_binary_operator_expr(n.rhs)
      IN
      IF lhs_op = NoOperator \/ rhs_op = NoOperator THEN get_text(n)
      ELSE
        LET simplified_op == determine_simplified_operator(lhs_op, rhs_op, n.op) IN
        IF simplified_op = NoOperator \/ operator_to_replace(lhs_op) = NoOperator
        THEN get_text(n)
        ELSE ReplaceAll(get_text(n.lhs), operator_to_replace(lhs_op), simplified_op)

\* bool_comparison::generate_fixed_text_for_comparison, declared outside
\* the sources read: x == true -> x, x == false -> !x, x != true -> !x,
\* x != false -> x, and the same with the literal on the left
TrueText  == <<"t", "r", "u", "e">>
FalseText == <<"f", "a", "l", "s", "e">>
generate_fixed_text_for_comparison(lhs, rhs, n) ==
    LET l       == TrimStart(TrimEnd(lhs))
        r       == TrimStart(TrimEnd(rhs))
        literal == IF r \in {TrueText, FalseText} THEN r ELSE l
        other   == IF r \in {TrueText, FalseText} THEN l ELSE r
        negate  == (n.op = <<"=", "=">>) <=> (literal = FalseText)
    IN IF negate THEN <<"!">> \o other ELSE other

\* fix.rs:173-179
fix_bool_comparison(n) ==
    generate_fixed_text_for_comparison(get_text(n.lhs), get_text(n.rhs), n)

-----------------------------------------------------------------------------
(* diagnostic_kind_from_message, plugin.rs:23-54.                          *)

\* The message constants of the lint modules. Only the collapsible else-if
\* module is part of the sources read; the other constants are declared in
\* lint modules whose strings are not, and each stands for its own string.
DESTRUCT_MATCH            == "DESTRUCT_MATCH"
MATCH_FOR_EQUALITY        == "MATCH_FOR_EQUALITY"
DOUBLE_PARENS             == "DOUBLE_PARENS"
SIMPLIFIABLE_COMPARISON   == "SIMPLIFIABLE_COMPARISON"
REDUNDANT_COMPARISON      == "REDUNDANT_COMPARISON"
CONTRADICTORY_COMPARISON  == "CONTRADICTORY_COMPARISON"
BREAK_UNIT                == "BREAK_UNIT"
EQUATABLE_IF_LET          == "EQUATABLE_IF_LET"
BOOL_COMPARISON           == "BOOL_COMPARISON"
DUPLICATE_UNDERSCORE_ARGS == "DUPLICATE_UNDERSCORE_ARGS"
LOOP_MATCH_POP_FRONT      == "LOOP_MATCH_POP_FRONT"

\* lints/collapsible_if_else.rs:7
COLLAPSIBLE_ELSE_IF == "Consider using 'else if' instead of 'else { if ... }'"

\* plugin.rs:49 names the collapsible else-if message COLLAPSIBLE_IF_ELSE;
\* the lint module declares it as COLLAPSIBLE_ELSE_IF. One category owns one
\* message, so both names stand for the same string.
COLLAPSIBLE_IF_ELSE == COLLAPSIBLE_ELSE_IF

\* plugin.rs:24-35
CairoLintKind ==
    {"DestructMatch", "MatchForEquality", "DoubleComparison", "DoubleParens",
     "EquatableIfLet", "BreakUnit", "BoolComparison", "CollapsibleIfElse",
     "DuplicateUnderscoreArgs", "LoopMatchPopFront", "Unknown"}

\* the patterns of the match at plugin.rs:40-51
MessageConstants ==
    {DESTRUCT_MATCH, MATCH_FOR_EQUALITY, DOUBLE_PARENS, SIMPLIFIABLE_COMPARISON,
     REDUNDANT_COMPARISON, CONTRADICTORY_COMPARISON, BREAK_UNIT, EQUATABLE_IF_LET,
     BOOL_COMPARISON, COLLAPSIBLE_IF_ELSE, DUPLICATE_UNDERSCORE_ARGS,
     LOOP_MATCH_POP_FRONT}

\* a classifier whose table lost the collapsible else-if arm
diagnostic_kind_table_short(message) ==
    CASE message = DESTRUCT_MATCH            -> "DestructMatch"
      [] message = MATCH_FOR_EQUALITY        -> "MatchForEquality"
      [] message = DOUBLE_PARENS             -> "DoubleParens"
      [] message = SIMPLIFIABLE_COMPARISON   -> "DoubleComparison"
      [] message = REDUNDANT_COMPARISON      -> "DoubleComparison"
      [] message = CONTRADICTORY_COMPARISON  -> "DoubleComparison"
      [] message = BREAK_UNIT                -> "BreakUnit"
      [] message = EQUATABLE_IF_LET          -> "EquatableIfLet"
      [] message = BOOL_COMPARISON           -> "BoolComparison"
      [] message = DUPLICATE_UNDERSCORE_ARGS -> "DuplicateUnderscoreArgs"
      [] message = LOOP_MATCH_POP_FRONT      -> "LoopMatchPopFront"
      [] OTHER                               -> "Unknown"

\* a classifier with one message per category: the redundant and the
\* contradictory comparison are not in its table
diagnostic_kind_one_to_one(message) ==
    CASE message = DESTRUCT_MATCH            -> "DestructMatch"
      [] message = MATCH_FOR_EQUALITY        -> "MatchForEquality"
      [] message = DOUBLE_PARENS             -> "DoubleParens"
      [] message = SIMPLIFIABLE_COMPARISON   -> "DoubleComparison"
      [] message = BREAK_UNIT                -> "BreakUnit"
      [] message = EQUATABLE_IF_LET          -> "EquatableIfLet"
      [] message = BOOL_COMPARISON           -> "BoolComparison"
      [] message = COLLAPSIBLE_IF_ELSE       -> "CollapsibleIfElse"
      [] message = DUPLICATE_UNDERSCORE_ARGS -> "DuplicateUnderscoreArgs"
      [] message = LOOP_MATCH_POP_FRONT      -> "LoopMatchPopFront"
      [] OTHER                               -> "Unknown"

\* plugin.rs:38-54
diagnostic_kind_from_message(message) ==
    CASE message = DESTRUCT_MATCH            -> "DestructMatch"
      [] message = MATCH_FOR_EQUALITY        -> "MatchForEquality"
      [] message = DOUBLE_PARENS             -> "DoubleParens"
      [] message = SIMPLIFIABLE_COMPARISON   -> "DoubleComparison"
      [] message = REDUNDANT_COMPARISON      -> "DoubleComparison"
      [] message = CONTRADICTORY_COMPARISON  -> "DoubleComparison"
      [] message = BREAK_UNIT                -> "BreakUnit"
      [] message = EQUATABLE_IF_LET          -> "EquatableIfLet"
      [] message = BOOL_COMPARISON           -> "BoolComparison"
      [] message = COLLAPSIBLE_IF_ELSE       -> "CollapsibleIfElse"
      [] message = DUPLICATE_UNDERSCORE_ARGS -> "DuplicateUnderscoreArgs"
      [] message = LOOP_MATCH_POP_FRONT      -> "LoopMatchPopFront"
      [] OTHER                               -> "Unknown"

\* messages that are no constant of a lint module
OtherMessages ==
    {"", "Consider using else if instead of else { if ... }", "Unused variable"}

Messages == MessageConstants \cup OtherMessages

-----------------------------------------------------------------------------
(* check_collapsible_else_if, lints/collapsible_if_else.rs.                *)

\* lints/collapsible_if_else.rs:9-19
is_else_if(clause) == clause.else_block_or_if = "If"

\* lints/collapsible_if_else.rs:21-41
is_first_statement_if(block_expr) ==
    LET statements == block_expr.statements IN
    IF Len(statements) > 0
    THEN IF statements[1].statement = "Expr"
         THEN statements[1].expr = "If"
         ELSE FALSE
    ELSE FALSE

\* lints/collapsible_if_else.rs:59-63
CollapsibleDiagnostic(clause) ==
    [stable_ptr |-> clause.stable_ptr, message |-> COLLAPSIBLE_ELSE_IF,
     severity |-> "Warning"]

\* lints/collapsible_if_else.rs:43-63: the output list after the call
check_collapsible_else_if(clause, diags) ==
    IF ~is_else_if(clause)
    THEN IF is_first_statement_if(clause)
         THEN Append(diags, CollapsibleDiagnostic(clause))
         ELSE diags
    ELSE diags

\* The statements of a block: an expression statement (an `if` or another
\* expression) or another statement (a `let`, ...).
Statements ==
    {[statement |-> "Expr", expr |-> "If"], [statement |-> "Expr", expr |-> "Other"],
     [statement |-> "Let", expr |-> "Other"]}

StatementLists == UNION {[1..n -> Statements] : n \in 0..MaxStatements}

StablePtrs == {"ptr1", "ptr2"}

\* the else clauses of a syntax tree: `else if ...` or `else { statements }`
ElseClauses ==
    {[else_block_or_if |-> "If", statements |-> <<>>, stable_ptr |-> ptr] :
        ptr \in StablePtrs}
    \cup {[else_block_or_if |-> "Block", statements |-> st, stable_ptr |-> ptr] :
        st \in StatementLists, ptr \in StablePtrs}

\* no else clause
NoClause == [else_block_or_if |-> "None"]

\* a diagnostic another detector appended earlier
EarlierDiagnostic ==
    [stable_ptr |-> "ptr0", message |-> DOUBLE_PARENS, severity |-> "Warning"]

-----------------------------------------------------------------------------
(* CairoLint::diagnostics, plugin.rs:57-147.                               *)

\* A detector declared outside the sources read: it appends one warning
\* with its message, anchored at the node, when the node is one it flags.
external_check(detector, message, n, diags) ==
    IF detector \in n.flagged
    THEN Append(diags, [stable_ptr |-> n.stable_ptr, message |-> message,
                        severity |-> "Warning"])
    ELSE diags

\* plugin.rs:78-86, 101-109: the match on one expression of a function body
check_expression(expression, diags) ==
    CASE expression.kind = "Match" ->
            external_check("single_match", DESTRUCT_MATCH, expression, diags)
      [] expression.kind = "Loop" ->
            external_check("loops", LOOP_MATCH_POP_FRONT, expression, diags)
      [] OTHER -> diags

\* plugin.rs:77-87, 100-110: the loop over the expressions of a function body
RECURSIVE check_expressions(_, _)
check_expressions(exprs, diags) ==
    IF exprs = <<>> THEN diags
    ELSE check_expressions(Tail(exprs), check_expression(exprs[1], diags))

\* plugin.rs:96-111: the loop over the functions of an impl; a function
\* whose body lookup fails is passed over
RECURSIVE check_impl_functions(_, _)
check_impl_functions(functions, diags) ==
    IF functions = <<>> THEN diags
    ELSE check_impl_functions(
            Tail(functions),
            IF functions[1].ok THEN check_expressions(functions[1].exprs, diags)
            ELSE diags)

\* plugin.rs:119-144: the match on the kind of one syntax node
check_node(n, diags) ==
    CASE n.kind = "ExprParenthesized" ->
            external_check("double_parens", DOUBLE_PARENS, n, diags)
      [] n.kind = "StatementBreak" ->
            external_check("breaks", BREAK_UNIT, n, diags)
      [] n.kind = "ExprIf" ->
            external_check("equatable_if_let", EQUATABLE_IF_LET, n, diags)
      [] n.kind = "ExprBinary" ->
            external_check("double_comparison", SIMPLIFIABLE_COMPARISON, n,
                external_check("bool_comparison", BOOL_COMPARISON, n, diags))
      [] n.kind = "ElseClause" ->
            check_collapsible_else_if(n.else_clause, diags)
      [] OTHER -> diags

\* plugin.rs:118-145: the loop over the descendants of an item
RECURSIVE check_nodes(_, _)
check_nodes(nodes, diags) ==
    IF nodes = <<>> THEN diags
    ELSE check_nodes(Tail(nodes), check_node(nodes[1], diags))

\* plugin.rs:71: `.unwrap()` of a signature lookup that failed
item_panics(item) == item.item = "FreeFunction" /\ ~item.signature.ok

\* plugin.rs:64-145: one iteration of `for item in &*items` that does not
\* abort: the output list after it
check_item(item, diags) ==
    CASE item.item = "Constant" -> check_nodes(item.nodes, diags)
      [] item.item = "FreeFunction" ->
            LET d1 == external_check("duplicate_underscore_args",
                                     DUPLICATE_UNDERSCORE_ARGS, item.signature, diags)
            IN
            IF ~item.body.ok THEN d1
            ELSE check_nodes(item.nodes, check_expressions(item.body.exprs, d1))
      [] item.item = "Impl" ->
            IF ~item.functions.ok THEN diags
            ELSE check_nodes(item.nodes, check_impl_functions(item.functions.list, diags))
      [] OTHER -> diags

-----------------------------------------------------------------------------
(* The host's parser, as far as the texts of else clauses need it.         *)

StartsWithIf(t, p) ==
    /\ Peek(t, p) = "i"
    /\ Peek(t, p + 1) = "f"
    /\ (IsWhitespace(Peek(t, p + 2)) \/ Peek(t, p + 2) \in {"(", NoChar})

StartsWithElse(t, p) == p + 4 <= Len(t) /\ SubSeq(t, p + 1, p + 4) = ElseWord

\* the characters consumed up to and including the next `{`
RECURSIVE AfterOpenBrace(_, _)
AfterOpenBrace(t, p) ==
    IF p >= Len(t) THEN Len(t)
    ELSE IF t[p + 1] = "{" THEN p + 1 ELSE AfterOpenBrace(t, p + 1)

\* the characters consumed up to and including the `}` that closes `depth`
\* open braces
RECURSIVE AfterCloseBrace(_, _, _)
AfterCloseBrace(t, p, depth) ==
    IF p >= Len(t) THEN Len(t)
    ELSE IF t[p + 1] = "{" THEN AfterCloseBrace(t, p + 1, depth + 1)
    ELSE IF t[p + 1] = "}"
         THEN IF depth = 1 THEN p + 1 ELSE AfterCloseBrace(t, p + 1, depth - 1)
         ELSE AfterCloseBrace(t, p + 1, depth)

\* the end of the `if` expression that starts after p characters, with its
\* else branches
RECURSIVE EndOfIf(_, _)
EndOfIf(t, p) ==
    LET close == AfterCloseBrace(t, AfterOpenBrace(t, p), 1)
        e     == close + WsRun(t, close)
    IN
    IF StartsWithElse(t, e)
    THEN LET b == e + 4 + WsRun(t, e + 4) IN
         IF StartsWithIf(t, b) THEN EndOfIf(t, b)
         ELSE IF Peek(t, b) = "{" THEN AfterCloseBrace(t, b + 1, 1)
         ELSE close
    ELSE close

\* the end of a statement that is a run of other characters
RECURSIVE EndOfOther(_, _)
EndOfOther(t, p) ==
    IF p >= Len(t) \/ IsWhitespace(t[p + 1]) \/ t[p + 1] = "}" THEN p
    ELSE EndOfOther(t, p + 1)

\* the statements of the block whose `{` was just consumed
RECURSIVE ParseStatements(_, _)
ParseStatements(t, p) ==
    LET q == p + WsRun(t, p) IN
    IF Peek(t, q) \in {"}", NoChar} THEN <<>>
    ELSE IF StartsWithIf(t, q)
         THEN <<[statement |-> "Expr", expr |-> "If"]>> \o ParseStatements(t, EndOfIf(t, q))
         ELSE <<[statement |-> "Expr", expr |-> "Other"]>>
              \o ParseStatements(t, EndOfOther(t, q + 1))

\* the else clause a text parses to
ParseElseClause(t) ==
    LET e == WsRun(t, 0)
        b == e + 4 + WsRun(t, e + 4)
    IN
    IF StartsWithIf(t, b)
    THEN [else_block_or_if |-> "If", statements |-> <<>>, stable_ptr |-> "ptr1"]
    ELSE [else_block_or_if |-> "Block", statements |-> ParseStatements(t, b + 1),
          stable_ptr |-> "ptr1"]

\* the texts whose else clause the detector flags
Flagged(t) == check_collapsible_else_if(ParseElseClause(t), <<>>) # <<>>

-----------------------------------------------------------------------------
(* The syntax nodes diagnostics are anchored at.                           *)

\* an unused variable
VariableNodes == {Leaf("TerminalIdentifier", <<>>, <<"v">>, <<>>)}

\* the trivia before a node: nothing, indentation, a new line and indentation
LeadingTrivia == {<<>>, <<" ", " ">>, <<NL, " ">>}
\* the trivia around an expression between parentheses
InnerTrivia == {<<>>, <<" ">>}

InnermostExprs ==
    {Leaf("Path", il, <<"a">>, il) : il \in InnerTrivia}
    \cup {Leaf("Binary", il, <<"x", " ", "+", " ", "y">>, il) : il \in InnerTrivia}

\* n parenthesis layers around e; the outermost has leading trivia `leading`
RECURSIVE Layers(_, _, _)
Layers(n, leading, e) ==
    IF n = 0 THEN e
    ELSE Parenthesized(leading, Layers(n - 1, e.leading, e), <<>>)

ParenNodes ==
    {Layers(n, leading, e) : n \in 1..MaxParens, leading \in LeadingTrivia,
                              e \in InnermostExprs}

\* break statements
\* `// break ();` on a line of its own, before the statement
BreakComment == <<"/", "/", " ">> \o BreakUnitText \o <<NL>>

\* break statements: break ();  break;  break (5);  break  ();
BreakNodes ==
    {Leaf("StatementBreak", leading, t, <<NL>>) :
        leading \in {<<>>, <<" ", " ">>, BreakComment},
        t \in {BreakUnitText, BreakText,
                <<"b", "r", "e", "a", "k", " ", "(", "5", ")", ";">>,
                <<"b", "r", "e", "a", "k", " ", " ", "(", ")", ";">>}}

\* the arms of a match: a pattern with its leading trivia, and a body
Arm(kind, leading, t, body, unit) ==
    [pattern |-> [kind |-> kind, leading |-> leading, text |-> t],
     expression |-> [text |-> body, unit |-> unit]]

Comment == <<NL, " ", "/", "/", "k", NL, " ">>

WildcardArm == Arm("Underscore", <<" ">>, <<"_">>, <<"(", ")">>, TRUE)
EnumArms ==
    {Arm("Enum", leading, <<"S", "(", "v", ")">>, <<"v">>, FALSE) :
        leading \in {<<" ">>, Comment}}
StructArms == {Arm("Struct", <<" ">>, <<"P", "{", "v", "}">>, <<"v">>, FALSE)}
UnitEnumArm == Arm("Enum", <<" ">>, <<"N">>, <<"(", ")">>, TRUE)

Match(leading, first_arm, second_arm) ==
    [kind |-> "ExprMatch", leading |-> leading, expr |-> <<"s">>,
     arms |-> <<first_arm, second_arm>>]

\* the matches the destructuring-match detector flags: one arm a wildcard
\* and the other an enum or struct pattern, or two enum patterns one of whose
\* bodies is the unit
FlaggedArmPairs ==
    {<<WildcardArm, a>> : a \in EnumArms \cup StructArms}
    \cup {<<a, WildcardArm>> : a \in EnumArms \cup StructArms}
    \cup {<<a, UnitEnumArm>> : a \in EnumArms}
    \cup {<<UnitEnumArm, a>> : a \in EnumArms}

MatchNodes ==
    {Match(leading, p[1], p[2]) : leading \in {<<>>, <<" ", " ">>}, p \in FlaggedArmPairs}

\* arms of other shapes: a second enum pattern with a body that is not the
\* unit, and a literal pattern
OtherEnumArm == Arm("Enum", <<" ">>, <<"T", "(", "w", ")">>, <<"w">>, FALSE)
LiteralArm == Arm("Literal", <<" ">>, <<"0">>, <<"v">>, FALSE)

AnyArms == {WildcardArm, UnitEnumArm, OtherEnumArm, LiteralArm} \cup EnumArms \cup StructArms

\* the two-arm matches a caller can hand to fix_destruct_match
AnyMatchNodes == {Match(<<" ", " ">>, a1, a2) : a1 \in AnyArms, a2 \in AnyArms}

\* a comparison `a <op> b` as an operand, or a path
Operand(t, operator) ==
    [kind |-> IF operator = NoOperator THEN "Path" ELSE "Binary", leading |-> <<>>,
     text |-> t, trailing |-> <<" ">>, inner |-> NoNode, op |-> operator]

Binary(lhs, operator, rhs) ==
    [kind |-> "Binary", leading |-> <<>>,
     text |-> get_text(lhs) \o operator \o <<" ">> \o get_text(rhs), trailing |-> <<>>,
     inner |-> NoNode, lhs |-> lhs, op |-> operator, rhs |-> rhs]

Less    == Operand(<<"a", " ", "<", " ", "b">>, <<"<">>)
Equal   == Operand(<<"a", " ", "=", "=", " ", "b">>, <<"=", "=">>)
Greater == Operand(<<"a", " ", ">", " ", "b">>, <<">">>)

\* a < b || a == b,  a < b && a > b,  a < b || a
DoubleComparisonNodes ==
    {Binary(Less, <<"|", "|">>, Equal), Binary(Less, <<"&", "&">>, Greater),
     Binary(Less, <<"|", "|">>, Operand(<<"a">>, NoOperator))}

\* `a < b` preceded by a comment line that holds a `<`
CommentedLess == [Less EXCEPT !.leading = <<"/", "/", "<", NL>>]

\* the nodes a caller can hand to fix_double_comparison: the flagged ones,
\* a flagged one under a comment, a path, and a path joined to a comparison
DoubleComparisonCallNodes ==
    DoubleComparisonNodes
    \cup {Binary(CommentedLess, <<"|", "|">>, Equal),
          Operand(<<"a">>, NoOperator),
          Binary(Operand(<<"a">>, NoOperator), <<"|", "|">>, Equal)}

\* x == true, x != false, false == x, ...
BoolComparisonNodes ==
    {Binary(Operand(<<"x">>, NoOperator), operator, Operand(literal, NoOperator)) :
        operator \in {<<"=", "=">>, <<"!", "=">>}, literal \in {TrueText, FalseText}}
    \cup {Binary(Operand(literal, NoOperator), operator, Operand(<<"x">>, NoOperator)) :
        operator \in {<<"=", "=">>, <<"!", "=">>}, literal \in {TrueText, FalseText}}

\* the else clauses the collapsible else-if detector flags, as syntax nodes
ElseClauseNodes == {Leaf("ElseClause", <<>>, t, <<>>) : t \in {u \in Texts : Flagged(u)}}

-----------------------------------------------------------------------------
(* The modules handed to CairoLint::diagnostics.                           *)

\* a syntax node or an expression of a function body, with the detectors
\* that flag it
SyntaxNode(kind, flagged, ptr) ==
    [kind |-> kind, flagged |-> flagged, stable_ptr |-> ptr, else_clause |-> NoClause]

ParenNode  == SyntaxNode("ExprParenthesized", {"double_parens"}, "ptr1")
BreakNode  == SyntaxNode("StatementBreak", {"breaks"}, "ptr2")
BinaryNode == SyntaxNode("ExprBinary", {"bool_comparison", "double_comparison"}, "ptr3")
IfNode     == SyntaxNode("ExprIf", {}, "ptr4")
\* a node of a kind no detector is called for
PathNode   == SyntaxNode("ExprPath", {}, "ptr5")

\* else { if .. }
ElseBlockNode ==
    [kind |-> "ElseClause", flagged |-> {}, stable_ptr |-> "ptr6",
     else_clause |-> [else_block_or_if |-> "Block",
                      statements |-> <<[statement |-> "Expr", expr |-> "If"]>>,
                      stable_ptr |-> "ptr6"]]
\* else if ..
ElseIfNode ==
    [kind |-> "ElseClause", flagged |-> {}, stable_ptr |-> "ptr7",
     else_clause |-> [else_block_or_if |-> "If", statements |-> <<>>,
                      stable_ptr |-> "ptr7"]]

MatchExpr == SyntaxNode("Match", {"single_match"}, "ptr8")
LoopExpr  == SyntaxNode("Loop", {"loops"}, "ptr9")
PlainLoop == SyntaxNode("Loop", {}, "ptr10")
BlockExpr == SyntaxNode("Block", {}, "ptr11")

\* Maybe<T>: a semantic lookup that failed
LookupFailed == [ok |-> FALSE]

Signature(flagged) ==
    [ok |-> TRUE, flagged |-> flagged, stable_ptr |-> "ptr12"]
FunctionBody(exprs) == [ok |-> TRUE, exprs |-> exprs]
ImplFunctions(list) == [ok |-> TRUE, list |-> list]

ModuleItem(item, signature, body, functions, nodes) ==
    [item |-> item, signature |-> signature, body |-> body, functions |-> functions,
     nodes |-> nodes]

ConstantItem ==
    ModuleItem("Constant", LookupFailed, LookupFailed, LookupFailed, <<ParenNode>>)
FreeFunctionItem ==
    ModuleItem("FreeFunction", Signature({"duplicate_underscore_args"}),
               FunctionBody(<<MatchExpr, PlainLoop, BlockExpr>>), LookupFailed,
               <<ElseBlockNode, PathNode, BinaryNode, ElseIfNode>>)
\* a free function whose body lookup fails
NoBodyItem ==
    ModuleItem("FreeFunction", Signature({"duplicate_underscore_args"}), LookupFailed,
               LookupFailed, <<ParenNode>>)
\* a free function whose signature lookup fails
NoSignatureItem ==
    ModuleItem("FreeFunction", LookupFailed, LookupFailed, LookupFailed, <<BreakNode>>)
ImplItem ==
    ModuleItem("Impl", LookupFailed, LookupFailed,
               ImplFunctions(<<LookupFailed, FunctionBody(<<LoopExpr>>)>>),
               <<BreakNode, IfNode>>)
\* an impl whose functions lookup fails
NoFunctionsItem ==
    ModuleItem("Impl", LookupFailed, LookupFailed, LookupFailed, <<ParenNode>>)
\* an item of another kind
StructItem ==
    ModuleItem("Struct", LookupFailed, LookupFailed, LookupFailed, <<ParenNode>>)

\* db.module_items(module_id)
Modules ==
    {LookupFailed,
     [ok |-> TRUE, items |-> <<>>],
     [ok |-> TRUE, items |-> <<ConstantItem, FreeFunctionItem>>],
     [ok |-> TRUE, items |-> <<FreeFunctionItem, ImplItem, ConstantItem>>],
     [ok |-> TRUE, items |-> <<NoBodyItem, ImplItem>>],
     [ok |-> TRUE, items |-> <<StructItem, NoFunctionsItem, FreeFunctionItem>>],
     [ok |-> TRUE, items |-> <<ConstantItem, NoSignatureItem, ImplItem>>]}

\* the callers that analyse a module each, at the same time
Callers == {1, 2}

\* every call appends to the list of the first caller
SharedList(c) == 1

\* plugin.rs:58: the output list a call appends to is its own
OwnList(c) == c

-----------------------------------------------------------------------------
(* fix_semantic_diagnostic and fix_plugin_diagnostic, fix.rs:43-56, 140-167 *)

\* SemanticDiagnosticKind, as far as fix.rs:44-55 tells the kinds apart
SemanticDiagnosticKinds == {"UnusedVariable", "PluginDiagnostic", "UnusedImport", "Other"}

\* the node the detector of a category anchors its diagnostic at
NodesOf(kind) ==
    CASE kind = "DoubleParens"      -> ParenNodes
      [] kind = "DestructMatch"     -> MatchNodes
      [] kind = "DoubleComparison"  -> DoubleComparisonNodes
      [] kind = "BreakUnit"         -> BreakNodes
      [] kind = "BoolComparison"    -> BoolComparisonNodes
      [] kind = "CollapsibleIfElse" -> ElseClauseNodes
      [] OTHER                      -> VariableNodes

\* the diagnostics the compiler hands to fix_semantic_diagnostic
SemanticDiagnostics ==
    {[kind |-> "UnusedVariable", message |-> "", node |-> n] : n \in VariableNodes}
    \cup {[kind |-> k, message |-> "", node |-> n] :
            k \in {"UnusedImport", "Other"}, n \in VariableNodes}
    \cup UNION {{[kind |-> "PluginDiagnostic", message |-> message, node |-> n] :
                    n \in NodesOf(diagnostic_kind_from_message(message))} :
                message \in Messages}

\* the categories whose arm at fix.rs:146-163 calls a fix routine
FixerKinds ==
    {"DoubleParens", "DestructMatch", "DoubleComparison", "BreakUnit", "BoolComparison",
     "CollapsibleIfElse"}

\* the fix routines that return in one step, fix.rs:150-158
one_shot_fix(kind, n) ==
    CASE kind = "DestructMatch"    -> fix_destruct_match(n)
      [] kind = "DoubleComparison" -> fix_double_comparison(n)
      [] kind = "BreakUnit"        -> fix_break_unit(n)
      [] kind = "BoolComparison"   -> fix_bool_comparison(n)

\* Option<(SyntaxNode, String)>
NoneFix == [returned |-> TRUE, some |-> FALSE]
SomeFix(n, suggestion) ==
    [returned |-> TRUE, some |-> TRUE, node |-> n, suggestion |-> suggestion]

-----------------------------------------------------------------------------
(* The state machine: a caller invokes one operation on one input.         *)

NoLog == <<>>
NoDiag == [kind |-> "None"]
NoFix == [returned |-> FALSE]
NoCalls == <<>>

\* the operations that run transform_if_else
TransformOps == {"transform_if_else", "fix_semantic_diagnostic", "relint"}
\* the operations that run fix_double_parens
ParenOps == {"fix_double_parens", "fix_semantic_diagnostic"}
\* the operations that run check_collapsible_else_if
CheckOps == {"check_collapsible_else_if", "relint"}

\* no call of transform_if_else is running
NoTransform ==
    /\ text = <<>>
    /\ pos = 0
    /\ result = <<>>
    /\ if_indentation = 0
    /\ diff_indentation = 0
    /\ inside_else_clause = FALSE
    /\ extra_else = FALSE
    /\ open_braces = 0

\* no fix has been asked for
NoFixCall ==
    /\ diag = NoDiag
    /\ node = NoNode
    /\ expr = NoNode
    /\ new_text = <<>>
    /\ fix = NoFix

\* no detector has run
NoCheck ==
    /\ else_clause = NoClause
    /\ diagnostics = <<>>
    /\ before = <<>>

InitTransform ==
    /\ op = "transform_if_else"
    /\ text \in Texts
    /\ log = NoLog
    /\ pc = Entry.pc
    /\ pos = Entry.pos
    /\ result = Entry.result
    /\ if_indentation = Entry.if_indentation
    /\ diff_indentation = Entry.diff_indentation
    /\ inside_else_clause = Entry.inside_else_clause
    /\ extra_else = Entry.extra_else
    /\ open_braces = Entry.open_braces
    /\ NoFixCall
    /\ NoCheck
    /\ calls = NoCalls

InitClassify ==
    /\ op = "diagnostic_kind_from_message"
    /\ pc = "idle"
    /\ log = NoLog
    /\ NoTransform
    /\ NoFixCall
    /\ NoCheck
    /\ calls = NoCalls

InitFix ==
    /\ op = "fix_semantic_diagnostic"
    /\ pc = "call"
    /\ log = NoLog
    /\ diag \in SemanticDiagnostics
    /\ node = NoNode
    /\ expr = NoNode
    /\ new_text = <<>>
    /\ fix = NoFix
    /\ NoTransform
    /\ NoCheck
    /\ calls = NoCalls

InitParens ==
    /\ op = "fix_double_parens"
    /\ pc = "strip"
    /\ log = NoLog
    /\ diag = NoDiag
    /\ node \in ParenNodes
    /\ expr = node
    /\ new_text = <<>>
    /\ fix = NoFix
    /\ NoTransform
    /\ NoCheck
    /\ calls = NoCalls

InitCheck ==
    /\ op = "check_collapsible_else_if"
    /\ pc = "check"
    /\ log = NoLog
    /\ else_clause \in ElseClauses
    /\ diagnostics \in {<<>>, <<EarlierDiagnostic>>}
    /\ before = diagnostics
    /\ NoTransform
    /\ NoFixCall
    /\ calls = NoCalls

InitDestructMatch ==
    /\ op = "fix_destruct_match"
    /\ pc = "call"
    /\ log = NoLog
    /\ diag = NoDiag
    /\ node \in AnyMatchNodes
    /\ expr = NoNode
    /\ new_text = <<>>
    /\ fix = NoFix
    /\ NoTransform
    /\ NoCheck
    /\ calls = NoCalls

InitBreak ==
    /\ op = "fix_break_unit"
    /\ pc = "call"
    /\ log = NoLog
    /\ diag = NoDiag
    /\ node \in BreakNodes
    /\ expr = NoNode
    /\ new_text = <<>>
    /\ fix = NoFix
    /\ NoTransform
    /\ NoCheck
    /\ calls = NoCalls

InitDoubleComparison ==
    /\ op = "fix_double_comparison"
    /\ pc = "call"
    /\ log = NoLog
    /\ diag = NoDiag
    /\ node \in DoubleComparisonCallNodes
    /\ expr = NoNode
    /\ new_text = <<>>
    /\ fix = NoFix
    /\ NoTransform
    /\ NoCheck
    /\ calls = NoCalls

\* detection, fix and detection again on the text of one else clause
InitRelint ==
    /\ op = "relint"
    /\ pc = "check"
    /\ log = NoLog
    /\ diag = NoDiag
    /\ node \in {Leaf("ElseClause", <<>>, t, <<>>) : t \in Texts}
    /\ expr = NoNode
    /\ new_text = <<>>
    /\ fix = NoFix
    /\ else_clause = ParseElseClause(get_text(node))
    /\ diagnostics = <<>>
    /\ before = <<>>
    /\ NoTransform
    /\ calls = NoCalls

\* plugin.rs:57-58: each caller calls diagnostics on a module
InitDiagnostics ==
    /\ op = "diagnostics"
    /\ pc = "idle"
    /\ log = NoLog
    /\ calls \in [Callers -> {[module |-> module, items_done |-> 0, diags |-> <<>>,
                                pc |-> "run"] : module \in Modules}]
    /\ NoTransform
    /\ NoFixCall
    /\ NoCheck

Init ==
    \/ InitTransform \/ InitClassify \/ InitFix \/ InitParens \/ InitCheck \/ InitRelint
    \/ InitBreak \/ InitDiagnostics \/ InitDestructMatch \/ InitDoubleComparison

\* fix.rs:244-283, 426-431
OuterScan ==
    /\ op \in TransformOps
    /\ pc = "outer"
    /\ pos < Len(text)
    /\ Assign(OuterIter(text, Locals))
    /\ UNCHANGED <<op, text, log, diag, node, expr, new_text, fix, else_clause,
                   diagnostics, before, calls>>

\* fix.rs:287-423
Flatten ==
    /\ op \in TransformOps
    /\ pc = "flatten"
    /\ pos < Len(text)
    /\ Assign(FlattenIter(text, Locals))
    /\ UNCHANGED <<op, text, log, diag, node, expr, new_text, fix, else_clause,
                   diagnostics, before, calls>>

\* fix.rs:287, 424: the flattening loop runs out of input; `continue`
FlattenExhausted ==
    /\ op \in TransformOps
    /\ pc = "flatten"
    /\ pos = Len(text)
    /\ pc' = "outer"
    /\ UNCHANGED <<op, text, pos, result, if_indentation, diff_indentation,
                   inside_else_clause, extra_else, open_braces, log, diag, node, expr,
                   new_text, fix, else_clause, diagnostics, before, calls>>

\* fix.rs:244, 434-441: the outer loop runs out of input; post-process,
\* return; fix.rs:230-232: fix_collapsible_if_else returns the same text
Finish ==
    /\ op \in TransformOps
    /\ pc = "outer"
    /\ pos = Len(text)
    /\ pc' = "done"
    /\ result' = PostProcess(result, diff_indentation)
    /\ new_text' = IF op = "transform_if_else" THEN new_text ELSE result'
    /\ UNCHANGED <<op, text, pos, if_indentation, diff_indentation,
                   inside_else_clause, extra_else, open_braces, log, diag, node, expr,
                   fix, else_clause, diagnostics, before, calls>>

\* plugin.rs:38-54: one call of the classifier
Classify ==
    /\ op = "diagnostic_kind_from_message"
    /\ Len(log) < MaxCalls
    /\ \E message \in Messages :
          log' = Append(log, [message |-> message,
                              kind |-> diagnostic_kind_from_message(message)])
    /\ UNCHANGED <<op, text, locals, diag, node, expr, new_text, fix, else_clause,
                   diagnostics, before, calls>>

\* fix.rs:202-204: one iteration of `while let Expr::Parenthesized(..) = expr`
Strip ==
    /\ op \in ParenOps
    /\ pc = "strip"
    /\ expr.kind = "Parenthesized"
    /\ expr' = expr.inner
    /\ UNCHANGED <<op, text, locals, log, diag, node, new_text, fix, else_clause,
                   diagnostics, before, calls>>

\* fix.rs:202, 206-210: the loop ends; build the text and return it
Format ==
    /\ op \in ParenOps
    /\ pc = "strip"
    /\ expr.kind # "Parenthesized"
    /\ new_text' = format_double_parens(node, expr)
    /\ pc' = "done"
    /\ UNCHANGED <<op, text, pos, result, if_indentation, diff_indentation,
                   inside_else_clause, extra_else, open_braces, log, diag, node, expr,
                   fix, else_clause, diagnostics, before, calls>>

\* fix.rs:44-55 and 146-164: the two matches, up to the call of a routine
\* that loops or to the return of one that does not
Dispatch ==
    /\ op = "fix_semantic_diagnostic"
    /\ pc = "call"
    /\ LET kind == diagnostic_kind_from_message(diag.message) IN
       IF diag.kind = "UnusedVariable"
       THEN /\ fix' = SomeFix(diag.node, fix_unused_variable(diag.node))
            /\ pc' = "returned"
            /\ UNCHANGED <<text, pos, result, if_indentation, diff_indentation,
                           inside_else_clause, extra_else, open_braces, node, expr,
                           new_text>>
       ELSE IF diag.kind # "PluginDiagnostic" \/ kind \notin FixerKinds
       THEN /\ fix' = NoneFix
            /\ pc' = "returned"
            /\ UNCHANGED <<text, pos, result, if_indentation, diff_indentation,
                           inside_else_clause, extra_else, open_braces, node, expr,
                           new_text>>
       ELSE IF kind = "DoubleParens"
       THEN /\ node' = diag.node
            /\ expr' = diag.node
            /\ pc' = "strip"
            /\ UNCHANGED <<text, pos, result, if_indentation, diff_indentation,
                           inside_else_clause, extra_else, open_braces, new_text, fix>>
       ELSE IF kind = "CollapsibleIfElse"
       THEN /\ node' = diag.node
            /\ text' = get_text(diag.node)
            /\ Assign(Entry)
            /\ UNCHANGED <<expr, new_text, fix>>
       ELSE IF kind = "DestructMatch" /\ fix_destruct_match_panics(diag.node)
       THEN /\ node' = diag.node
            /\ pc' = "panic"
            /\ UNCHANGED <<text, pos, result, if_indentation, diff_indentation,
                           inside_else_clause, extra_else, open_braces, expr, new_text,
                           fix>>
       ELSE /\ node' = diag.node
            /\ new_text' = one_shot_fix(kind, diag.node)
            /\ pc' = "done"
            /\ UNCHANGED <<text, pos, result, if_indentation, diff_indentation,
                           inside_else_clause, extra_else, open_braces, expr, fix>>
    /\ UNCHANGED <<op, log, diag, else_clause, diagnostics, before, calls>>

\* fix.rs:166: the routine returned new_text
ReturnSome ==
    /\ op = "fix_semantic_diagnostic"
    /\ pc = "done"
    /\ fix' = SomeFix(diag.node, new_text)
    /\ pc' = "returned"
    /\ UNCHANGED <<op, text, pos, result, if_indentation, diff_indentation,
                   inside_else_clause, extra_else, open_braces, log, diag, node, expr,
                   new_text, else_clause, diagnostics, before, calls>>

\* lints/collapsible_if_else.rs:43-63: one call of the detector
Check ==
    /\ op \in CheckOps
    /\ pc = "check"
    /\ diagnostics' = check_collapsible_else_if(else_clause, diagnostics)
    /\ pc' = "checked"
    /\ UNCHANGED <<op, text, pos, result, if_indentation, diff_indentation,
                   inside_else_clause, extra_else, open_braces, log, diag, node, expr,
                   new_text, fix, else_clause, before, calls>>

\* fix.rs:228-233: the flagged clause is handed to fix_collapsible_if_else
FixFlagged ==
    /\ op = "relint"
    /\ pc = "checked"
    /\ diagnostics # <<>>
    /\ text' = get_text(node)
    /\ Assign(Entry)
    /\ UNCHANGED <<op, log, diag, node, expr, new_text, fix, else_clause, diagnostics,
                   before, calls>>

\* the fixed text replaces the clause, and the detector runs on it again
Recheck ==
    /\ op = "relint"
    /\ pc = "done"
    /\ else_clause' = [ParseElseClause(new_text) EXCEPT !.stable_ptr = else_clause.stable_ptr]
    /\ before' = <<>>
    /\ diagnostics' = check_collapsible_else_if(else_clause', <<>>)
    /\ pc' = "rechecked"
    /\ UNCHANGED <<op, text, pos, result, if_indentation, diff_indentation,
                   inside_else_clause, extra_else, open_braces, log, diag, node, expr,
                   new_text, fix, calls>>

\* fix.rs:169-171: one call of fix_break_unit
FixBreak ==
    /\ op = "fix_break_unit"
    /\ pc = "call"
    /\ new_text' = fix_break_unit(node)
    /\ pc' = "done"
    /\ UNCHANGED <<op, text, pos, result, if_indentation, diff_indentation,
                   inside_else_clause, extra_else, open_braces, log, diag, node, expr,
                   fix, else_clause, diagnostics, before, calls>>

\* fix.rs:169-171: the returned text replaces the statement, and
\* fix_break_unit is called on it again
FixBreakAgain ==
    /\ op = "fix_break_unit"
    /\ pc = "done"
    /\ node' = Leaf("StatementBreak", <<>>, new_text, <<>>)
    /\ new_text' = fix_break_unit(node')
    /\ pc' = "again"
    /\ UNCHANGED <<op, text, pos, result, if_indentation, diff_indentation,
                   inside_else_clause, extra_else, open_braces, log, diag, expr,
                   fix, else_clause, diagnostics, before, calls>>

\* fix.rs:444-468: one call of fix_double_comparison
FixDoubleComparison ==
    /\ op = "fix_double_comparison"
    /\ pc = "call"
    /\ new_text' = fix_double_comparison(node)
    /\ pc' = "done"
    /\ UNCHANGED <<op, text, pos, result, if_indentation, diff_indentation,
                   inside_else_clause, extra_else, open_braces, log, diag, node, expr,
                   fix, else_clause, diagnostics, before, calls>>

\* fix.rs:95-126: one call of fix_destruct_match
FixDestructMatch ==
    /\ op = "fix_destruct_match"
    /\ pc = "call"
    /\ IF fix_destruct_match_panics(node)
       THEN pc' = "panic" /\ UNCHANGED new_text
       ELSE pc' = "done" /\ new_text' = fix_destruct_match(node)
    /\ UNCHANGED <<op, text, pos, result, if_indentation, diff_indentation,
                   inside_else_clause, extra_else, open_braces, log, diag, node, expr,
                   fix, else_clause, diagnostics, before, calls>>

\* plugin.rs:63-146: one iteration of `for item in &*items` of call c
AnalyseItem(c) ==
    /\ op = "diagnostics"
    /\ calls[c].pc = "run"
    /\ calls[c].module.ok
    /\ calls[c].items_done < Len(calls[c].module.items)
    /\ LET item == calls[c].module.items[calls[c].items_done + 1] IN
       IF item_panics(item)
       THEN calls' = [calls EXCEPT ![c].pc = "panic"]
       ELSE calls' = [calls EXCEPT ![c].items_done = @ + 1,
                                   ![OwnList(c)].diags = check_item(item, @)]
    /\ UNCHANGED <<op, text, locals, log, diag, node, expr, new_text, fix, else_clause,
                   diagnostics, before>>

\* plugin.rs:60-62, 146: call c returns its list, at once when the lookup
\* of the module's items fails
ReturnDiagnostics(c) ==
    /\ op = "diagnostics"
    /\ calls[c].pc = "run"
    /\ IF calls[c].module.ok
       THEN calls[c].items_done = Len(calls[c].module.items)
       ELSE TRUE
    /\ calls' = [calls EXCEPT ![c].pc = "returned"]
    /\ UNCHANGED <<op, text, locals, log, diag, node, expr, new_text, fix, else_clause,
                   diagnostics, before>>

Next ==
    \/ OuterScan \/ Flatten \/ FlattenExhausted \/ Finish
    \/ Classify
    \/ Strip \/ Format
    \/ Dispatch \/ ReturnSome
    \/ Check \/ FixFlagged \/ Recheck
    \/ FixBreak \/ FixBreakAgain
    \/ \E c \in Callers : AnalyseItem(c)
    \/ \E c \in Callers : ReturnDiagnostics(c)
    \/ FixDestructMatch
    \/ FixDoubleComparison

Spec == Init /\ [][Next]_vars

\* a running call of fix_double_parens or of transform_if_else keeps running
FairSpec ==
    /\ Spec
    /\ WF_vars(Strip) /\ WF_vars(Format)
    /\ WF_vars(OuterScan) /\ WF_vars(Flatten) /\ WF_vars(FlattenExhausted)
    /\ WF_vars(Finish)

Returned == op = "transform_if_else" /\ pc = "done"

-----------------------------------------------------------------------------
(* Claims about transform_if_else.                                         *)

\* C1: for every outer indentation I and level width d, the nested
\* else { if c { x } else { y } } is returned as else if c { x } else { y },
\* every inner line one level shallower and the outer closing brace removed.
C1_Flattened ==
    \A I \in Indents, d \in Deltas :
        (Returned /\ text = NestedIfElse(I, d)) => result = FlatIfElse(I, d)

C1_Witness == Returned /\ text = NestedIfElse(1, 2) /\ result = FlatIfElse(1, 2)

\* an `else {` followed only by whitespace and `}`
EmptyElseAt(r, i) ==
    /\ i + 5 <= Len(r)
    /\ SubSeq(r, i, i + 3) = ElseWord
    /\ LET b == i + 3 + WsRun(r, i + 3) IN
       /\ Peek(r, b) = "{"
       /\ Peek(r, b + 1 + WsRun(r, b + 1)) = "}"

HasEmptyElse(r) == \E i \in 1..Len(r) : EmptyElseAt(r, i)

\* C2: when the inner if has no else branch, the returned text contains no
\* empty else block.
C2_NoEmptyElse ==
    \A I \in Indents, d \in Deltas :
        (Returned /\ text = NestedIfNoElse(I, d)) => ~HasEmptyElse(result)

\* depth of open braces after s, or -1 once a `}` closes nothing
RECURSIVE BraceDepth(_, _)
BraceDepth(s, depth) ==
    IF depth < 0 \/ s = <<>> THEN depth
    ELSE BraceDepth(Tail(s), CASE s[1] = "{" -> depth + 1
                               [] s[1] = "}" -> depth - 1
                               [] OTHER      -> depth)

Balanced(s) == BraceDepth(s, 0) = 0

\* C3: a text with balanced, properly nested braces is returned with
\* balanced, properly nested braces.
C3_BraceBalance == (Returned /\ Balanced(text)) => Balanced(result)

\* `else`, whitespace, `{`, whitespace, `if` starts at character i of t
TriggerAt(t, i) ==
    /\ i + 3 <= Len(t)
    /\ SubSeq(t, i, i + 3) = ElseWord
    /\ LET b == i + 3 + WsRun(t, i + 3) IN
       /\ Peek(t, b) = "{"
       /\ LET f == b + 1 + WsRun(t, b + 1) IN
          Peek(t, f) = "i" /\ Peek(t, f + 1) = "f"

\* the number of characters before the first triggering sequence
BeforeTrigger(t) ==
    IF \E i \in 1..Len(t) : TriggerAt(t, i)
    THEN (CHOOSE i \in 1..Len(t) :
             TriggerAt(t, i) /\ \A j \in 1..(i - 1) : ~TriggerAt(t, j)) - 1
    ELSE Len(t)

\* C4: the characters before the first triggering sequence are returned
\* as they are; a text without one is returned character for character.
C4_CopiedUnchanged ==
    Returned =>
        /\ Len(result) >= BeforeTrigger(text)
        /\ SubSeq(result, 1, BeforeTrigger(text)) = SubSeq(text, 1, BeforeTrigger(text))
        /\ (BeforeTrigger(text) = Len(text) => result = text)

-----------------------------------------------------------------------------
(* Claims about the classifier.                                            *)

Classified == {log[i] : i \in 1..Len(log)}

\* C5: every message constant is classified as a category other than
\* Unknown, every other message as Unknown, and two calls with the same
\* message return the same category.
C5_TotalLookup ==
    /\ \A c \in Classified :
          /\ c.kind \in CairoLintKind
          /\ (c.message \in MessageConstants) <=> (c.kind # "Unknown")
    /\ \A c1, c2 \in Classified : c1.message = c2.message => c1.kind = c2.kind

C5_Witness ==
    /\ Len(log) = 2
    /\ log[1] = [message |-> COLLAPSIBLE_ELSE_IF, kind |-> "CollapsibleIfElse"]
    /\ log[2] = log[1]

-----------------------------------------------------------------------------
(* Claims about fix_semantic_diagnostic.                                   *)

\* a call of fix_semantic_diagnostic has ended, by a return or by an abort
FixCallEnded == op = "fix_semantic_diagnostic" /\ pc \in {"returned", "panic"}

NoFixerKinds ==
    {"Unknown", "MatchForEquality", "EquatableIfLet", "DuplicateUnderscoreArgs",
     "LoopMatchPopFront"}

PairKinds ==
    {"DoubleParens", "DestructMatch", "DoubleComparison", "BreakUnit", "BoolComparison",
     "CollapsibleIfElse"}

IsNone(f) == f.returned /\ ~f.some
IsPairAt(f, n) == f.returned /\ f.some /\ f.node = n

\* C6: a call of fix_semantic_diagnostic ends with None for an unused
\* import, for any other non-plugin kind except unused variable and for a
\* plugin diagnostic of a category without fixer; it ends with a
\* (node, replacement) pair for an unused variable and for a plugin
\* diagnostic of a category with a fixer.
C6_NoneExactlyWhenNoFixer ==
    FixCallEnded =>
        LET kind == diagnostic_kind_from_message(diag.message) IN
        /\ diag.kind \in {"UnusedImport", "Other"} => IsNone(fix)
        /\ (diag.kind = "PluginDiagnostic" /\ kind \in NoFixerKinds) => IsNone(fix)
        /\ diag.kind = "UnusedVariable" => IsPairAt(fix, diag.node)
        /\ (diag.kind = "PluginDiagnostic" /\ kind \in PairKinds) => IsPairAt(fix, diag.node)

-----------------------------------------------------------------------------
(* Claims about the classifier, continued.                                 *)

\* C7 as stated: no two distinct message constants are classified as the
\* same category.
C7_OneToOne ==
    \A c1, c2 \in Classified :
        (c1.message \in MessageConstants /\ c2.message \in MessageConstants
         /\ c1.message # c2.message) => c1.kind # c2.kind

\* C7 amended: two distinct message constants are classified as the same
\* category only when both are double-comparison messages, and each of the
\* three double-comparison messages is classified as DoubleComparison.
DoubleComparisonMessages ==
    {SIMPLIFIABLE_COMPARISON, REDUNDANT_COMPARISON, CONTRADICTORY_COMPARISON}

C7_OneToOneButDoubleComparison ==
    /\ \A c1, c2 \in Classified :
          (c1.message \in MessageConstants /\ c2.message \in MessageConstants
           /\ c1.message # c2.message /\ c1.kind = c2.kind)
              => {c1.message, c2.message} \subseteq DoubleComparisonMessages
    /\ \A c \in Classified :
          c.message \in DoubleComparisonMessages => c.kind = "DoubleComparison"

C7_Witness ==
    /\ Len(log) = 2
    /\ log[1] = [message |-> SIMPLIFIABLE_COMPARISON, kind |-> "DoubleComparison"]
    /\ log[2] = [message |-> CONTRADICTORY_COMPARISON, kind |-> "DoubleComparison"]

-----------------------------------------------------------------------------
(* Claims about check_collapsible_else_if.                                 *)

CheckReturned == op = "check_collapsible_else_if" /\ pc = "checked"

\* a block whose only content is an `if` expression
OnlyContentIsIf(clause) ==
    /\ clause.else_block_or_if = "Block"
    /\ clause.statements = <<[statement |-> "Expr", expr |-> "If"]>>

\* C8: check_collapsible_else_if appends exactly one diagnostic (Warning,
\* anchored at the else clause, message COLLAPSIBLE_ELSE_IF) when the else
\* clause is a block whose only content is an `if` expression, and appends
\* nothing otherwise.
C8_AppendsIffOnlyContentIf ==
    CheckReturned =>
        IF OnlyContentIsIf(else_clause)
        THEN diagnostics = Append(before, [stable_ptr |-> else_clause.stable_ptr,
                                           message |-> COLLAPSIBLE_ELSE_IF,
                                           severity |-> "Warning"])
        ELSE diagnostics = before

\* the detector has run again on the output of the fix
Rechecked == op = "relint" /\ pc = "rechecked"

\* C9: once the text of a flagged else clause is replaced by the output of
\* fix_collapsible_if_else, the clause has the form `else if ...` and the
\* detector appends no diagnostic at it.
C9_FixedClauseNotFlagged ==
    Rechecked => (is_else_if(else_clause) /\ diagnostics = <<>>)

-----------------------------------------------------------------------------
(* Claims about fix_double_parens.                                         *)

ParensReturned == op = "fix_double_parens" /\ pc = "done"

\* the expression inside all parenthesis layers
RECURSIVE Innermost(_)
Innermost(e) == IF e.kind = "Parenthesized" THEN Innermost(e.inner) ELSE e

\* C10: for every nesting depth from 1 up, fix_double_parens returns the
\* node's leading whitespace followed by the trivia-free text of the
\* innermost expression; the expression the loop ends with is not
\* parenthesized, and every call returns.
C10_StripsEveryLayer ==
    /\ [](ParensReturned =>
            /\ expr.kind # "Parenthesized"
            /\ expr = Innermost(node)
            /\ new_text = node.leading \o Innermost(node).text)
    /\ [](op = "fix_double_parens" => <>ParensReturned)

C10_Witness ==
    /\ ParensReturned
    /\ ParenDepth(node) = 3
    /\ node.leading = <<NL, " ">>
    /\ Innermost(node).leading = <<" ">>
    /\ new_text = <<NL, " ", "x", " ", "+", " ", "y">>

-----------------------------------------------------------------------------
(* Claims about fix_break_unit.                                            *)

\* the positions of t at which `break ();` starts
BreakUnitAt(t) ==
    {i \in 1..Len(t) : i + 8 <= Len(t) /\ SubSeq(t, i, i + 8) = BreakUnitText}

\* t without the ` ()` of each `break ();`
RECURSIVE WithoutUnits(_, _)
WithoutUnits(t, i) ==
    IF i > Len(t) THEN <<>>
    ELSE IF \E j \in BreakUnitAt(t) : i \in (j + 5)..(j + 7)
         THEN WithoutUnits(t, i + 1)
         ELSE <<t[i]>> \o WithoutUnits(t, i + 1)

\* C11: fix_break_unit returns the statement text with every `break ();`
\* turned into `break;` and every other character kept; a text without
\* `break ();` is returned as it is, and the fix applied to its own output
\* returns that output.
C11_ReplacesEveryBreakUnit ==
    /\ (op = "fix_break_unit" /\ pc = "done") =>
          /\ new_text = WithoutUnits(get_text(node), 1)
          /\ BreakUnitAt(new_text) = {}
          /\ (BreakUnitAt(get_text(node)) = {} => new_text = get_text(node))
    /\ (op = "fix_break_unit" /\ pc = "again") => new_text = get_text(node)

C11_Witness ==
    /\ op = "fix_break_unit"
    /\ pc = "done"
    /\ Cardinality(BreakUnitAt(get_text(node))) = 2
    /\ new_text = <<"/", "/", " ">> \o BreakText \o <<NL>> \o BreakText \o <<NL>>

-----------------------------------------------------------------------------
(* Claims about CairoLint::diagnostics.                                    *)

\* an item with a semantic lookup that failed
LookupFails(item) ==
    \/ item.item = "FreeFunction" /\ (~item.signature.ok \/ ~item.body.ok)
    \/ item.item = "Impl" /\ ~item.functions.ok

\* the diagnostics of the items of a module, those with a failed lookup
\* passed over
RECURSIVE SkippingFailedItems(_, _)
SkippingFailedItems(items, diags) ==
    IF items = <<>> THEN diags
    ELSE SkippingFailedItems(
            Tail(items),
            IF LookupFails(items[1]) THEN diags ELSE check_item(items[1], diags))

\* C12: no call of diagnostics aborts, and a call returns the diagnostics
\* of its module's items with every item whose lookup fails passed over
\* without a diagnostic (none at all when the module's items lookup fails).
C12_NeverHardErrors ==
    op = "diagnostics" =>
        \A c \in Callers :
            /\ calls[c].pc # "panic"
            /\ calls[c].pc = "returned" =>
                  calls[c].diags =
                      IF calls[c].module.ok
                      THEN SkippingFailedItems(calls[c].module.items, <<>>)
                      ELSE <<>>

-----------------------------------------------------------------------------
(* Claims about fix_destruct_match.                                        *)

\* the shape the detector guarantees: a wildcard and an enum or struct
\* pattern, or two enum patterns with the unit as the body of one arm
GuaranteedShape(n) ==
    LET k1 == n.arms[1].pattern.kind
        k2 == n.arms[2].pattern.kind
    IN
    \/ k1 = "Underscore" /\ k2 \in {"Enum", "Struct"}
    \/ k2 = "Underscore" /\ k1 \in {"Enum", "Struct"}
    \/ /\ k1 = "Enum"
       /\ k2 = "Enum"
       /\ (n.arms[1].expression.unit \/ n.arms[2].expression.unit)

\* C13: fix_destruct_match returns a text only for a match of the shape
\* the detector guarantees, and aborts for every other pair of arms.
C13_AbortsOnOtherShapes ==
    op = "fix_destruct_match" =>
        /\ pc = "done" => GuaranteedShape(node)
        /\ pc = "panic" => ~GuaranteedShape(node)

-----------------------------------------------------------------------------
(* Claims about the control flow of transform_if_else.                     *)

Transforming == op = "transform_if_else" /\ pc \in {"outer", "flatten"}
Ended == op = "transform_if_else" /\ pc \in {"done", "panic"}

\* C14: every call of transform_if_else ends; an iteration of the outer
\* scan or of the flattening loop that does not abort consumes at least one
\* character, no character is given back, and no more characters are
\* consumed than the text has.
C14_Terminates ==
    /\ [](op = "transform_if_else" => pos \in 0..Len(text))
    /\ [][(Transforming /\ pos < Len(text) /\ pc' # "panic") => pos' > pos]_vars
    /\ [][op = "transform_if_else" => pos' >= pos]_vars
    /\ [](op = "transform_if_else" => <>Ended)

C14_Witness ==
    /\ op = "transform_if_else"
    /\ pc = "done"
    /\ pos = Len(text)
    /\ text = NestedInElse(2, 2)

-----------------------------------------------------------------------------
(* Claims about concurrent calls of CairoLint::diagnostics.                *)

\* the list a call that runs alone has after the given items
RECURSIVE RunAlone(_, _)
RunAlone(items, diags) ==
    IF items = <<>> THEN diags
    ELSE RunAlone(Tail(items), check_item(items[1], diags))

\* C15: under every interleaving of the steps of two calls of diagnostics,
\* the list of each call holds what the call alone appends for the items it
\* has analysed, in the same order, and a call returns once it has analysed
\* every item of its module.
C15_NoCoordination ==
    op = "diagnostics" =>
        \A c \in Callers :
            IF calls[c].module.ok
            THEN /\ calls[c].diags =
                        RunAlone(SubSeq(calls[c].module.items, 1, calls[c].items_done), <<>>)
                 /\ calls[c].pc = "returned" =>
                        calls[c].items_done = Len(calls[c].module.items)
            ELSE calls[c].diags = <<>>

C15_Witness ==
    /\ op = "diagnostics"
    /\ \A c \in Callers :
          /\ calls[c].pc = "run"
          /\ calls[c].items_done = 1
          /\ calls[c].diags # <<>>
    /\ calls[1].diags # calls[2].diags

-----------------------------------------------------------------------------
\* C16: whenever the text holds `else`, any whitespace, `{`, any whitespace,
\* `if`, the call flattens it: the returned text has `else if` where the
\* first such sequence began, whatever stood between `else` and `{`.
HasTrigger(t) == \E i \in 1..Len(t) : TriggerAt(t, i)

C16_TriggersOnAnyWhitespace ==
    (Returned /\ HasTrigger(text)) =>
        LET b == BeforeTrigger(text) IN
        /\ Len(result) >= b + 7
        /\ SubSeq(result, b + 1, b + 7) = ElseIf

-----------------------------------------------------------------------------
\* C17: in flattening mode, before the inner else clause is reached, a line
\* indented deeper than the base if-indentation is written back at its own
\* indentation minus one indentation delta.
DeeperLineNext ==
    /\ op \in TransformOps
    /\ pc = "flatten"
    /\ ~inside_else_clause
    /\ pos < Len(text)
    /\ text[pos + 1] = NL
    /\ SpaceRun(text, pos + 1) > if_indentation

C17_DeeperLinesLoseOneDelta ==
    [][(DeeperLineNext /\ pc' = "flatten") =>
          LET line == SpaceRun(text, pos + 1) IN
          /\ line >= diff_indentation'
          /\ result' = result \o <<NL>> \o Spaces(line - diff_indentation')]_vars

-----------------------------------------------------------------------------
\* the number of characters consumed when the first triggering sequence of t
\* has been read, its `if` included
FlatteningStart(t) ==
    LET i == BeforeTrigger(t) + 1
        b == i + 3 + WsRun(t, i + 3)
        f == b + 1 + WsRun(t, b + 1)
    IN f + 2

NewlineNext ==
    /\ op \in TransformOps
    /\ pc = "flatten"
    /\ pos < Len(text)
    /\ text[pos + 1] = NL

FirstNewline == \A j \in (FlatteningStart(text) + 1)..pos : text[j] # NL

\* C18: the indentation delta is set at the first newline read in flattening
\* mode, to that line's indentation minus the base if-indentation, and every
\* later newline leaves it as it is.
C18_DeltaMeasuredOnce ==
    [][(NewlineNext /\ pc' = "flatten") =>
          IF FirstNewline
          THEN diff_indentation' = SpaceRun(text, pos + 1) - if_indentation
          ELSE diff_indentation' = diff_indentation]_vars

-----------------------------------------------------------------------------
\* a step of the outer scan that ends a triggering sequence
EntersFlattening ==
    /\ op \in TransformOps
    /\ pc = "outer"
    /\ pc' = "flatten"

\* C19: each time flattening mode is entered the open-brace counter is 0 and
\* both flags are false, also after an earlier construct of the same text
\* was flattened.
C19_EntryStateIsFresh ==
    [][EntersFlattening =>
          /\ open_braces' = 0
          /\ ~inside_else_clause'
          /\ ~extra_else']_vars

\* the whitespace, newlines aside, that stands right before the `if` ending
\* after e consumed characters
OwnIfIndentation(t, e) ==
    Cardinality({j \in 1..(e - 2) :
                    /\ t[j] # NL
                    /\ \A k \in j..(e - 2) : IsWhitespace(t[k])})

\* C20: when flattening mode is entered the base if-indentation is the
\* whitespace consumed between the `{` and the `if` of the sequence that
\* triggered it, and of no earlier one.
C20_IfIndentationOfThisTrigger ==
    [][EntersFlattening => if_indentation' = OwnIfIndentation(text, pos')]_vars

-----------------------------------------------------------------------------
\* the length of the longest common prefix of a and b
CommonPrefix(a, b) ==
    CHOOSE k \in 0..Len(a) :
        /\ k <= Len(b)
        /\ SubSeq(a, 1, k) = SubSeq(b, 1, k)
        /\ \A j \in (k + 1)..Len(a) : j > Len(b) \/ SubSeq(a, 1, j) # SubSeq(b, 1, j)

\* the characters of the emitted output r that one step took back
Removed(r, r2) == SubSeq(r, CommonPrefix(r, r2) + 1, Len(r))

ElseLetters == {"e", "l", "s"}

Scanning == op \in TransformOps /\ pc \in {"outer", "flatten"} /\ pc' \in {"outer", "flatten"}

\* C21: a step of the scan takes back from the emitted output nothing but
\* whitespace and the letters of a trailing `else`; the undo made when the
\* inner if's closing brace becomes `} else {` takes back spaces only.
C21_RemovesOnlyWhitespaceOrElse ==
    [][Scanning =>
          \A i \in 1..Len(Removed(result, result')) :
              \/ IsWhitespace(Removed(result, result')[i])
              \/ Removed(result, result')[i] \in ElseLetters]_vars

-----------------------------------------------------------------------------
\* the flattening loop is about to read a `}` with the open-brace counter at 0
CloseAtZeroNext ==
    /\ op \in TransformOps
    /\ pc = "flatten"
    /\ pos < Len(text)
    /\ text[pos + 1] = "}"
    /\ open_braces = 0

\* C22: a `}` read in flattening mode at counter 0 is written out and ends
\* flattening mode at that character, and the counter does not go below 0.
C22_ExitsAtCounterZero ==
    [][CloseAtZeroNext =>
          /\ result' = Append(result, "}")
          /\ pc' = "outer"
          /\ open_braces' >= 0]_vars

-----------------------------------------------------------------------------
\* sub occurs in s
Contains(s, sub) ==
    \E i \in 0..(Len(s) - Len(sub)) : SubSeq(s, i + 1, i + Len(sub)) = sub

\* the arm the replacement is built from: the arm that is not the wildcard;
\* of two enum arms the first when the body of the second is the unit,
\* otherwise the second
KeptArm(n) ==
    IF n.arms[1].pattern.kind = "Underscore" THEN 2
    ELSE IF n.arms[2].pattern.kind = "Underscore" THEN 1
    ELSE IF n.arms[2].expression.unit THEN 1 ELSE 2

DestructMatchReturned == op = "fix_destruct_match" /\ pc = "done"

\* C23: a returned replacement ends with `if let P = s { B }` where P and B
\* are the pattern and the body of one arm, the arm that is not the
\* wildcard (of two enum arms the first when the second's body is the unit,
\* otherwise the second); a pattern or a body that only the other arm has
\* does not occur in it.
C23_PatternAndBodyOfKeptArm ==
    DestructMatchReturned =>
        LET kept  == node.arms[KeptArm(node)]
            other == node.arms[3 - KeptArm(node)]
        IN
        /\ kept.pattern.kind # "Underscore"
        /\ EndsWith(new_text,
                    IfLet \o kept.pattern.text \o <<" ", "=", " ">> \o node.expr
                    \o <<" ", "{", " ">> \o kept.expression.text \o <<" ", "}">>)
        /\ other.pattern.text # kept.pattern.text
              => ~Contains(new_text, other.pattern.text)
        /\ other.expression.text # kept.expression.text
              => ~Contains(new_text, other.expression.text)

C23_Witness ==
    /\ DestructMatchReturned
    /\ node.arms[1] = UnitEnumArm
    /\ node.arms[2] = OtherEnumArm
    /\ Contains(new_text, OtherEnumArm.pattern.text)

-----------------------------------------------------------------------------
DoubleComparisonEnded == op = "fix_double_comparison" /\ pc \in {"done", "panic"}

\* both sides are comparisons, a simplified operator exists and the left
\* operator can be replaced
Simplifiable(n) ==
    IF n.kind # "Binary" THEN FALSE
    ELSE IF extract_binary_operator_expr(n.lhs) = NoOperator
            \/ extract_binary_operator_expr(n.rhs) = NoOperator
    THEN FALSE
    ELSE /\ determine_simplified_operator(n.lhs.op, n.rhs.op, n.op) # NoOperator
         /\ operator_to_replace(n.lhs.op) # NoOperator

\* the text of the comparison e with its operator, and nothing else,
\* replaced by operator
WithOperator(e, operator) ==
    e.leading \o ReplaceFirst(get_text_without_trivia(e), e.op, operator) \o e.trailing

\* C24: fix_double_comparison never aborts; for a simplifiable node it
\* returns the left operand's text with its operator replaced by the
\* simplified operator, for every other node the node's text as it is.
C24_SimplifiedOrUnchanged ==
    DoubleComparisonEnded =>
        /\ pc = "done"
        /\ IF Simplifiable(node)
           THEN new_text = WithOperator(node.lhs,
                               determine_simplified_operator(node.lhs.op, node.rhs.op, node.op))
           ELSE new_text = get_text(node)

-----------------------------------------------------------------------------
\* C25: the outer scan never aborts on a missing character, also when the
\* text ends fewer than three characters after an `el` or right after the
\* `i` that follows `else`, whitespace, `{`, whitespace.
C25_NoAbortOnShortInput ==
    [][(op \in TransformOps /\ pc = "outer") => pc' # "panic"]_vars

-----------------------------------------------------------------------------
\* the newline about to be read measures the delta: fix.rs:384-386
MeasuresDelta == NewlineNext /\ diff_indentation = 0

\* the newline about to be read stands before the closing brace that is
\* dedented by the delta: fix.rs:394-404
DedentsClosingBrace ==
    /\ NewlineNext
    /\ SpaceRun(text, pos + 1) <= if_indentation
    /\ inside_else_clause
    /\ extra_else
    /\ Peek(text, pos + 1 + SpaceRun(text, pos + 1)) = "}"

\* C26: the subtractions of the newline step stay in the unsigned range:
\* the line indentation is at least the base if-indentation when the delta
\* is measured, and at least the delta when the closing brace is dedented.
C26_NoUnderflow ==
    LET line == SpaceRun(text, pos + 1)
        diff == IF diff_indentation = 0 THEN line - if_indentation ELSE diff_indentation
    IN
    /\ MeasuresDelta => line >= if_indentation
    /\ DedentsClosingBrace => line >= diff

====
